---- MODULE Spec2Model ----
(***************************************************************************)
(* A model of the signed-distance-field renderer of src/main.rs.           *)
(*                                                                         *)
(* FLOAT (f32) values are fixed-point integers: the value 1.0 is Scale,    *)
(* so MIN_DISTANCE (0.001) is 2 units and MAX_DEPTH (50.0) is 50 * Scale.  *)
(* Products and quotients round to the nearest unit.  Like f32, Length     *)
(* keeps a bounded number of significant bits: it is exact to the unit for *)
(* short vectors and coarser for long ones.  The one NaN the program can   *)
(* make from finite inputs, the normalisation of a zero vector, is the     *)
(* value NaN, and every operation propagates it.                           *)
(*                                                                         *)
(* Three specifications:                                                   *)
(*   Spec       one pixel closure of main (jitter, trace_ray step by step, *)
(*              mean, to_color), or one direct call of trace_ray or of     *)
(*              to_color on inputs drawn from bounded sets;                *)
(*   MarchSpec  one direct call of trace_ray under fair scheduling;        *)
(*   FrameSpec  the frame loop of main: the parallel pixel tasks on worker *)
(*              threads with their thread-local generators, the copy to    *)
(*              the u32 buffer and the hand-over to the window.  Whether a *)
(*              march hits or misses is a free choice there.               *)
(***************************************************************************)
EXTENDS Integers, Sequences, FiniteSets, TLC

(* ------------------------------ bounds -------------------------------- *)
\* Image size of the model (the program renders 320 x 160).
WIDTH == 1
HEIGHT == 3
\* Rays per pixel in the model (the program draws 10).
SAMPLES == 2
\* Worker threads of the pool, and frames rendered before the model stops.
NumWorkers == 2
MaxFrames == 2

IMAGE_SIZE == WIDTH * HEIGHT

(* ------------------------- fixed-point FLOAT --------------------------- *)
MIN_DISTANCE == 2
Scale == 1000 * MIN_DISTANCE
MAX_DEPTH == 50 * Scale
FloatMax == 2^30
NaN == 0 - 2^30
\* Longest component for which a squared length fits the integer width.
MaxExact == 13 * Scale

Abs(a) == IF a < 0 THEN 0 - a ELSE a
Max2(a, b) == IF a < b THEN b ELSE a
Min2(a, b) == IF b < a THEN b ELSE a

\* a / b rounded to the nearest unit, b > 0.
RDiv(a, b) == (2 * a + b) \div (2 * b)

FAdd(a, b) == IF a = NaN \/ b = NaN THEN NaN ELSE a + b
FSub(a, b) == IF a = NaN \/ b = NaN THEN NaN ELSE a - b
FNeg(a) == IF a = NaN THEN NaN ELSE 0 - a
FMul(a, b) == IF a = NaN \/ b = NaN THEN NaN ELSE RDiv(a * b, Scale)
\* f32::max returns the other operand when one is NaN.
FMax(a, b) == IF a = NaN THEN b ELSE IF b = NaN THEN a ELSE Max2(a, b)
FMin(a, b) == IF a = NaN THEN b ELSE IF b = NaN THEN a ELSE Min2(a, b)
\* a < b on floats: false when either is NaN.
FLt(a, b) == a # NaN /\ b # NaN /\ a < b

RECURSIVE SqrtIter(_, _, _)
SqrtIter(n, lo, hi) ==
    IF hi - lo <= 1 THEN lo
    ELSE LET mid == (lo + hi) \div 2
         IN IF mid * mid <= n THEN SqrtIter(n, mid, hi) ELSE SqrtIter(n, lo, mid)

\* Square root of n >= 0, rounded to the nearest integer.
Sqrt(n) ==
    LET r == SqrtIter(n, 0, 46341)
    IN IF n - r * r > r THEN r + 1 ELSE r

(* ------------------------------- Vec3 ---------------------------------- *)
Vec3(x, y, z) == <<x, y, z>>
ZERO == Vec3(0, 0, 0)
ONE == Vec3(Scale, Scale, Scale)
NaNVec == Vec3(NaN, NaN, NaN)
IsNaNVec(v) == v[1] = NaN \/ v[2] = NaN \/ v[3] = NaN

VAdd(a, b) == IF IsNaNVec(a) \/ IsNaNVec(b) THEN NaNVec
              ELSE Vec3(a[1] + b[1], a[2] + b[2], a[3] + b[3])
VSub(a, b) == IF IsNaNVec(a) \/ IsNaNVec(b) THEN NaNVec
              ELSE Vec3(a[1] - b[1], a[2] - b[2], a[3] - b[3])
\* v * k, k a FLOAT.
VMul(v, k) == IF IsNaNVec(v) \/ k = NaN THEN NaNVec
              ELSE Vec3(FMul(v[1], k), FMul(v[2], k), FMul(v[3], k))
VAbs(v) == Vec3(Abs(v[1]), Abs(v[2]), Abs(v[3]))
VMaxZero(v) == Vec3(Max2(v[1], 0), Max2(v[2], 0), Max2(v[3], 0))
MaxElement(v) == Max2(v[1], Max2(v[2], v[3]))
\* |v|^2 in units of 1/Scale^2, for vectors no longer than MaxExact.
LengthSquared(v) == v[1] * v[1] + v[2] * v[2] + v[3] * v[3]

RECURSIVE LengthFinite(_)
LengthFinite(v) ==
    IF MaxElement(VAbs(v)) <= MaxExact THEN Sqrt(LengthSquared(v))
    ELSE 2 * LengthFinite(Vec3(RDiv(v[1], 2), RDiv(v[2], 2), RDiv(v[3], 2)))

Length(v) == IF IsNaNVec(v) THEN NaN ELSE LengthFinite(v)

\* glam: self * (1 / length); a zero vector gives 0 * inf = NaN.
Normalize(v) ==
    LET len == Length(v)
    IN IF len = NaN \/ len = 0 THEN NaNVec
       ELSE Vec3(RDiv(v[1] * Scale, len), RDiv(v[2] * Scale, len), RDiv(v[3] * Scale, len))

VEC3_EPSILON_X == Vec3(MIN_DISTANCE, 0, 0)
VEC3_EPSILON_Y == Vec3(0, MIN_DISTANCE, 0)
VEC3_EPSILON_Z == Vec3(0, 0, MIN_DISTANCE)

(* ---------------------------- Ray, HitRecord --------------------------- *)
Ray(position, direction) == [position |-> position, direction |-> direction]
HitRecord(t, p, normal) == [t |-> t, p |-> p, normal |-> normal]
NoHit == HitRecord(0, ZERO, ZERO)

(* ----------------------------- Sdf shapes ------------------------------ *)
Sphere(center, radius) == [kind |-> "Sphere", center |-> center, radius |-> radius]
Cube(center, size) == [kind |-> "Cube", center |-> center, size |-> size]
And(t, u) == [kind |-> "And", t |-> t, u |-> u]
Not(t, u) == [kind |-> "Not", t |-> t, u |-> u]

SphereDistance(s, point) == FSub(Length(VSub(point, s.center)), s.radius)

CubeDistance(s, point) ==
    IF IsNaNVec(point) THEN NaN
    ELSE LET q == VSub(VAbs(VSub(point, s.center)), Vec3(s.size, s.size, s.size))
         IN Length(VMaxZero(q)) + Min2(MaxElement(q), 0)

RECURSIVE Distance(_, _)
Distance(shape, point) ==
    CASE shape.kind = "Sphere" -> SphereDistance(shape, point)
      [] shape.kind = "Cube" -> CubeDistance(shape, point)
      [] shape.kind = "And" -> FMax(Distance(shape.t, point), Distance(shape.u, point))
      [] shape.kind = "Not" -> FMax(Distance(shape.t, point), FNeg(Distance(shape.u, point)))

\* Sdf::normal: central differences over 2 * MIN_DISTANCE, then normalize.
Normal(shape, point) ==
    Normalize(Vec3(
        FSub(Distance(shape, VAdd(point, VEC3_EPSILON_X)), Distance(shape, VSub(point, VEC3_EPSILON_X))),
        FSub(Distance(shape, VAdd(point, VEC3_EPSILON_Y)), Distance(shape, VSub(point, VEC3_EPSILON_Y))),
        FSub(Distance(shape, VAdd(point, VEC3_EPSILON_Z)), Distance(shape, VSub(point, VEC3_EPSILON_Z)))))

\* The scene main builds: for z in 3 .. 6, And { t: cube 0.75, u: sphere 1.0 }.
MainShapes ==
    [i \in 1..3 |->
        And(Cube(Vec3(0, 0, (i + 2) * Scale), (3 * Scale) \div 4),
            Sphere(Vec3(0, 0, (i + 2) * Scale), Scale))]

\* A scene of one sphere, and one of a cube with a sphere carved out of it.
SphereShapes == <<Sphere(Vec3(0, 0, 3 * Scale), Scale)>>
CarvedShapes == <<Not(Cube(Vec3(0, 0, 3 * Scale), (3 * Scale) \div 4),
                      Sphere(Vec3(0, 0, 3 * Scale), Scale))>>
Scenes == {MainShapes, SphereShapes, CarvedShapes}

(* ------------------------------ to_color ------------------------------- *)
RECURSIVE BitOr(_, _)
BitOr(a, b) ==
    IF a = 0 THEN b
    ELSE IF b = 0 THEN a
    ELSE 2 * BitOr(a \div 2, b \div 2) + (IF a % 2 = 1 \/ b % 2 = 1 THEN 1 ELSE 0)

\* (255.99 * x) as u32: the cast truncates, saturates below at 0 and maps NaN to 0.
\* No input of the model reaches the upper saturation at 2^32 - 1.
Quantize(x) ==
    IF x = NaN \/ x < 0 THEN 0 ELSE (25599 * x) \div (100 * Scale)

\* (ir << 16) | (ig << 8) | ib on u32; no input of the model shifts a bit out.
to_color(col) ==
    BitOr(BitOr(Quantize(col[1]) * 65536, Quantize(col[2]) * 256), Quantize(col[3]))

(* ------------------------- trace_ray, the pieces ----------------------- *)
MaxBounces == 5

\* The depth test one bounce late.
DepthExceededLate(depth) == depth > MaxBounces + 1

DepthExceeded(depth) == depth > MaxBounces

\* The for loop over the shapes: min_distance starts at FLOAT::MAX.
RECURSIVE MinFrom(_, _, _, _)
MinFrom(shapes, point, i, min_distance) ==
    IF i > Len(shapes) THEN min_distance
    ELSE LET d == Distance(shapes[i], point)
         IN MinFrom(shapes, point, i + 1, IF FLt(d, min_distance) THEN d ELSE min_distance)

MinDistance(shapes, point) == MinFrom(shapes, point, 1, FloatMax)

IsMiss(min_distance) == min_distance > MAX_DEPTH
\* The hit test with <= for <.
IsHitInclusive(min_distance) == min_distance <= MIN_DISTANCE

IsHit(min_distance) == min_distance < MIN_DISTANCE
Advance(point, direction, min_distance) == VAdd(point, VMul(direction, min_distance))

SkyBlue == Vec3(Scale \div 2, (7 * Scale) \div 10, Scale)

\* The gradient with its two ends exchanged.
SkyColorSwapped(direction) ==
    LET unit_direction == Normalize(direction)
        t == FMul(Scale \div 2, FAdd(unit_direction[2], Scale))
    IN VAdd(VMul(ONE, t), VMul(SkyBlue, FSub(Scale, t)))

\* The miss path: the gradient between white and sky blue.
SkyColor(direction) ==
    LET unit_direction == Normalize(direction)
        t == FMul(Scale \div 2, FAdd(unit_direction[2], Scale))
    IN VAdd(VMul(ONE, FSub(Scale, t)), VMul(SkyBlue, t))

\* The recursive result returned without the factor 0.5.
NoAlbedo(v) == v

\* 0.5 * v
Half(v) == VMul(v, Scale \div 2)

\* What rng.random_range(-1.0..1.0) can return in the model, and the candidates of
\* random_in_unit_sphere.
RandVals == {0 - Scale, 0 - (Scale \div 2), Scale \div 2}
Candidates == {Vec3(x, y, z) : x \in RandVals, y \in RandVals, z \in RandVals}
InUnitSphere(cand) == LengthSquared(cand) < Scale * Scale

ScatterRay(h, r) ==
    LET target == VAdd(VAdd(h.p, h.normal), r)
    IN Ray(h.p, VSub(target, h.p))

(* --------------------------- the pixel closure ------------------------- *)
INV_WIDTH == RDiv(Scale * Scale, WIDTH * Scale)
INV_HEIGHT == RDiv(Scale * Scale, HEIGHT * Scale)
aspect_ratio == RDiv(WIDTH * Scale * Scale, HEIGHT * Scale)

\* Lines 202-206: the pixel's x and y after the conversion and the aspect scaling.
PixelX(pos) ==
    FMul(FSub(FMul((pos % WIDTH) * Scale, FMul(INV_WIDTH, 2 * Scale)), Scale), aspect_ratio)
PixelY(pos) ==
    FSub(FMul((pos \div WIDTH) * Scale, FMul(INV_HEIGHT, 2 * Scale)), Scale)

\* What rng.random::<f32>() can return in the model: values of [0, 1).
JitterVals == {0, (3 * Scale) \div 4}

\* Lines 208-211: the closure under with_borrow_mut.
JitterU(x, ju) == FAdd(x, ju)
JitterV(y, jv) == FAdd(y, jv)

CameraRay(origin, u, v) == Ray(origin, Normalize(Vec3(u, v, Scale)))

\* color / SAMPLES as f32
Mean(c) == IF IsNaNVec(c) THEN NaNVec
           ELSE Vec3(RDiv(c[1], SAMPLES), RDiv(c[2], SAMPLES), RDiv(c[3], SAMPLES))

\* Camera origins of the model: d_time = 0 and a quarter turn later.
Origins == {Vec3(0, Scale, 0), Vec3(2 * Scale, 0, 0)}

(* ------------------- inputs of the direct calls ------------------------ *)
\* The camera at the origin, a point on the surface of the sphere of SphereShapes, a
\* point half of MIN_DISTANCE in front of it, and a point out of reach of every scene.
TestPositions == {ZERO, Vec3(0, 0, 2 * Scale), Vec3(0, 0, 2 * Scale - 1),
                  Vec3(0, 0, 0 - 60 * Scale)}
TestDirections == {Vec3(0, Scale, 0), Vec3(0, 0 - Scale, 0), Vec3(0, 0, Scale),
                   Vec3(0, 0, 0 - Scale), ZERO}
TestDepths == {0, MaxBounces + 1}
TestChannels == {0 - Scale, 0, Scale \div 2, Scale, (3 * Scale) \div 2, 2 * Scale}

(* ------------------------------- state --------------------------------- *)
VARIABLES
    mode,       \* "pixel", "call", "color": what this run executes
    shapes,     \* the scene
    origin,     \* the camera origin of the frame
    pos,        \* the pixel index of the closure
    sample,     \* the fold's index over 0 .. SAMPLES
    c,          \* the fold's accumulator
    uv,         \* the (x, y) the jitter closure returned for the current sample
    ray0,       \* the ray of the outermost trace_ray call
    depth0,     \* the depth of the outermost trace_ray call
    ray,        \* the ray of the running trace_ray call
    depth,      \* its depth; the calls below it wait to halve its result
    p,          \* the march's current point
    iter,       \* parity of the march iterations of the running call
    hit,        \* the last HitRecord constructed
    rnd,        \* the last vector random_in_unit_sphere returned
    leaf,       \* how the innermost call ended: sky gradient or depth limit
    result,     \* the value being returned
    col,        \* the color given to to_color
    packed,     \* the u32 to_color returned
    pc,         \* the position in the code
    \* the frame loop
    frame,      \* frames started so far
    fpc,        \* the main thread's position: "loop", "render", "convert", "present", "exit"
    pending,    \* pixel indices of the frame no task has taken yet
    computed,   \* per pixel index, how often the closure ran for it in this frame
    written,    \* per slot of backbuffer, how often it was written in this frame
    backbuffer, \* per slot, which computation (frame, index) its Vec3 comes from
    buffer,     \* per slot, which computation its u32 comes from
    presented,  \* the buffer last handed to update_with_buffer
    task,       \* per worker thread, the pixel closure it runs
    borrows     \* per generator, the mutable borrows of its RefCell now alive

pixelVars == <<mode, shapes, origin, pos>>
traceVars == <<ray, depth, p, iter, hit, rnd, leaf, result>>
frameVars == <<frame, fpc, pending, computed, written, backbuffer, buffer, presented, task,
               borrows>>
renderVars == <<mode, shapes, origin, pos, sample, c, uv, ray0, depth0, ray, depth, p, iter,
                hit, rnd, leaf, result, col, packed, pc>>
vars == <<renderVars, frameVars>>

Workers == 1..NumWorkers
Pixels == 0..(IMAGE_SIZE - 1)
\* The Vec3 (or u32) the closure of frame f computes for pixel index i; frame 0 is
\* the fill of the constructors, vec![..; IMAGE_SIZE].
Shade(f, i) == [frame |-> f, index |-> i]
IdleTask == [pos |-> 0, sample |-> 0, tpc |-> "idle", depth |-> 0]

FrameIdle ==
    /\ frame = 0 /\ fpc = "loop" /\ pending = {}
    /\ computed = [i \in Pixels |-> 0]
    /\ written = [i \in Pixels |-> 0]
    /\ backbuffer = [i \in Pixels |-> Shade(0, i)]
    /\ buffer = [i \in Pixels |-> Shade(0, i)]
    /\ presented = <<>>
    /\ task = [w \in Workers |-> IdleTask]
    /\ borrows = [g \in Workers |-> 0]

NoRay == Ray(ZERO, ZERO)
NoLeaf == [kind |-> "none", depth |-> 0, direction |-> ZERO]

TraceIdle ==
    /\ ray = NoRay /\ ray0 = NoRay /\ depth = 0 /\ depth0 = 0 /\ p = ZERO /\ iter = 0
    /\ hit = NoHit /\ rnd = ZERO /\ leaf = NoLeaf /\ result = ZERO

InitPixel ==
    /\ mode = "pixel" /\ shapes = MainShapes
    /\ origin \in Origins /\ pos \in 0..(IMAGE_SIZE - 1)
    /\ sample = 0 /\ c = ZERO /\ uv = <<0, 0>>
    /\ TraceIdle
    /\ col = ZERO /\ packed = 0 /\ pc = "sample"
    /\ FrameIdle

InitCallAt(positions) ==
    /\ mode = "call" /\ shapes \in Scenes
    /\ origin = ZERO /\ pos = 0 /\ sample = 0 /\ c = ZERO /\ uv = <<0, 0>>
    /\ ray0 \in {Ray(position, direction) : position \in positions, direction \in TestDirections}
    /\ ray = ray0
    /\ depth0 \in TestDepths /\ depth = depth0
    /\ p = ZERO /\ iter = 0 /\ hit = NoHit /\ rnd = ZERO /\ leaf = NoLeaf /\ result = ZERO
    /\ col = ZERO /\ packed = 0 /\ pc = "call"
    /\ FrameIdle

InitCall == InitCallAt(TestPositions)

InitColor ==
    /\ mode = "color" /\ shapes = MainShapes
    /\ origin = ZERO /\ pos = 0 /\ sample = 0 /\ c = ZERO /\ uv = <<0, 0>>
    /\ TraceIdle
    /\ col \in {Vec3(r, g, b) : r \in TestChannels, g \in TestChannels, b \in TestChannels}
    /\ packed = 0 /\ pc = "quantize"
    /\ FrameIdle

Init == InitPixel \/ InitCall \/ InitColor

(* ------------------------------ actions -------------------------------- *)
\* Lines 208-213: one round of the fold up to the call of trace_ray.
SampleRay ==
    /\ pc = "sample"
    /\ \E ju \in JitterVals, jv \in JitterVals :
          LET u == JitterU(PixelX(pos), ju)
              v == JitterV(PixelY(pos), jv)
          IN /\ uv' = <<u, v>>
             /\ ray' = CameraRay(origin, u, v)
    /\ ray0' = ray'
    /\ depth' = 0 /\ depth0' = 0
    /\ leaf' = NoLeaf
    /\ pc' = "call"
    /\ UNCHANGED <<frameVars, pixelVars, sample, c, p, iter, hit, rnd, result, col, packed>>

\* Lines 130-134: the entry of trace_ray.
TraceCall ==
    /\ pc = "call"
    /\ IF DepthExceeded(depth)
       THEN /\ result' = ZERO
            /\ leaf' = [kind |-> "limit", depth |-> depth, direction |-> ray.direction]
            /\ pc' = "ret"
            /\ UNCHANGED <<p, iter>>
       ELSE /\ p' = ray.position
            /\ iter' = 0
            /\ pc' = "march"
            /\ UNCHANGED <<result, leaf>>
    /\ UNCHANGED <<frameVars, pixelVars, sample, c, uv, ray0, depth0, ray, depth, hit, rnd, col, packed>>

\* Lines 135-157: one iteration of the loop, and the miss path after the break.
MarchStep ==
    /\ pc = "march"
    /\ LET min_distance == MinDistance(shapes, p)
       IN IF IsMiss(min_distance)
          THEN /\ result' = SkyColor(ray.direction)
               /\ leaf' = [kind |-> "sky", depth |-> depth, direction |-> ray.direction]
               /\ pc' = "ret"
               /\ UNCHANGED <<p, iter, hit>>
          ELSE LET q == Advance(p, ray.direction, min_distance)
               IN /\ p' = q
                  /\ iter' = 1 - iter
                  /\ IF IsHit(min_distance)
                     THEN /\ hit' = HitRecord(min_distance, q, Normal(shapes[1], q))
                          /\ pc' = "sphere"
                     ELSE /\ pc' = "march"
                          /\ UNCHANGED hit
                  /\ UNCHANGED <<result, leaf>>
    /\ UNCHANGED <<frameVars, pixelVars, sample, c, uv, ray0, depth0, ray, depth, rnd, col, packed>>

\* Lines 121-126: a candidate outside the unit sphere is dropped and the loop draws
\* again; the candidate is a local of the closure, so no state changes.
SphereReject ==
    /\ pc = "sphere"
    /\ \E cand \in Candidates : ~InUnitSphere(cand)
    /\ UNCHANGED vars

\* Lines 121-126 and 150-151: the accepted candidate, and the recursive call.
SphereAccept ==
    /\ pc = "sphere"
    /\ \E cand \in Candidates :
          /\ InUnitSphere(cand)
          /\ rnd' = cand
          /\ ray' = ScatterRay(hit, cand)
    /\ depth' = depth + 1
    /\ pc' = "call"
    /\ UNCHANGED <<frameVars, pixelVars, sample, c, uv, ray0, depth0, p, iter, hit, leaf, result, col, packed>>

\* Line 151: a recursive call returned; 0.5 * its result is returned in turn.
TraceReturn ==
    /\ pc = "ret"
    /\ depth > depth0
    /\ result' = Half(result)
    /\ depth' = depth - 1
    /\ UNCHANGED <<frameVars, pixelVars, sample, c, uv, ray0, depth0, ray, p, iter, hit, rnd, leaf, col,
                   packed, pc>>

\* A direct call of trace_ray returned to its caller.
CallDone ==
    /\ pc = "ret"
    /\ depth = depth0
    /\ mode = "call"
    /\ pc' = "done"
    /\ UNCHANGED <<frameVars, pixelVars, sample, c, uv, ray0, depth0, traceVars, col, packed>>

\* Line 213: trace_ray(ray, &shapes, 0) + c, and the fold's next round.
SampleDone ==
    /\ pc = "ret"
    /\ depth = depth0
    /\ mode = "pixel"
    /\ c' = VAdd(result, c)
    /\ sample' = sample + 1
    /\ pc' = IF sample + 1 < SAMPLES THEN "sample" ELSE "resolve"
    /\ UNCHANGED <<frameVars, pixelVars, uv, ray0, depth0, traceVars, col, packed>>

\* Line 216: color / SAMPLES as f32.
PixelResolve ==
    /\ pc = "resolve"
    /\ col' = Mean(c)
    /\ pc' = "quantize"
    /\ UNCHANGED <<frameVars, pixelVars, sample, c, uv, ray0, depth0, traceVars, packed>>

\* Lines 111-118 and 226.
ToColor ==
    /\ pc = "quantize"
    /\ packed' = to_color(col)
    /\ pc' = "done"
    /\ UNCHANGED <<frameVars, pixelVars, sample, c, uv, ray0, depth0, traceVars, col>>

Next ==
    \/ SampleRay
    \/ TraceCall
    \/ MarchStep
    \/ SphereReject
    \/ SphereAccept
    \/ TraceReturn
    \/ CallDone
    \/ SampleDone
    \/ PixelResolve
    \/ ToColor

Spec == Init /\ [][Next]_vars

\* One direct call of trace_ray, from the camera, from the sphere's surface or from
\* out of reach.  The thread keeps running, and a candidate inside the unit sphere is
\* drawn in the end (the rejection loop ends with probability 1).
MarchPositions == {ZERO, Vec3(0, 0, 2 * Scale), Vec3(0, 0, 0 - 60 * Scale)}

NextCall ==
    \/ TraceCall
    \/ MarchStep
    \/ SphereReject
    \/ SphereAccept
    \/ TraceReturn
    \/ CallDone

\* Weak fairness of MarchStep, written with its enabling condition pc = "march": a
\* thread in the loop runs the next iteration.
MarchFair == ([]<>(pc # "march")) \/ ([]<><<MarchStep>>_vars)

MarchSpec ==
    /\ InitCallAt(MarchPositions)
    /\ [][NextCall]_vars
    /\ WF_vars(TraceCall)
    /\ WF_vars(SphereAccept)
    /\ WF_vars(TraceReturn)
    /\ WF_vars(CallDone)
    /\ MarchFair

(* ---------------------------- the frame loop -------------------------- *)
\* One generator shared by every thread.
SharedRng(w) == 1

\* thread_local! RNG: the generator a thread reaches is its own.
RngOf(w) == w

\* collect_into_vec puts the value the closure returns for index i into slot i.
SlotOf(i) == i

\* The parallel iterator returning as soon as every index was taken.
AllTaken == pending = {}

\* The parallel iterator returns when every index was taken and every closure returned.
AllDone == pending = {} /\ \A w \in Workers : task[w].tpc = "idle"

Borrow(g) == [borrows EXCEPT ![g] = @ + 1]
Release(g) == [borrows EXCEPT ![g] = @ - 1]

InitFrame ==
    /\ mode = "frame" /\ shapes = MainShapes
    /\ origin = ZERO /\ pos = 0 /\ sample = 0 /\ c = ZERO /\ uv = <<0, 0>>
    /\ TraceIdle
    /\ col = ZERO /\ packed = 0 /\ pc = "done"
    /\ FrameIdle

\* Line 196 holds: the window is open and Escape is up; the frame's tasks are set out.
FrameStart ==
    /\ fpc = "loop"
    /\ frame < MaxFrames
    /\ frame' = frame + 1
    /\ pending' = Pixels
    /\ computed' = [i \in Pixels |-> 0]
    /\ written' = [i \in Pixels |-> 0]
    /\ fpc' = "render"
    /\ UNCHANGED <<renderVars, backbuffer, buffer, presented, task, borrows>>

\* Line 196 fails: the window was closed or Escape is down.
FrameExit ==
    /\ fpc = "loop"
    /\ fpc' = "exit"
    /\ UNCHANGED <<renderVars, frame, pending, computed, written, backbuffer, buffer,
                   presented, task, borrows>>

\* Lines 201-207: a worker thread takes an index and enters the closure and its fold.
TaskStart(w) ==
    /\ fpc = "render"
    /\ task[w].tpc = "idle"
    /\ \E i \in pending :
          /\ pending' = pending \ {i}
          /\ computed' = [computed EXCEPT ![i] = @ + 1]
          /\ task' = [task EXCEPT ![w] = [pos |-> i, sample |-> 0, tpc |-> "fold", depth |-> 0]]
    /\ UNCHANGED <<renderVars, frame, fpc, written, backbuffer, buffer, presented, borrows>>

\* Line 208: RNG.with_borrow_mut of the jitter closure begins.
JitterBorrow(w) ==
    /\ task[w].tpc = "fold"
    /\ borrows' = Borrow(RngOf(w))
    /\ task' = [task EXCEPT ![w].tpc = "jitter"]
    /\ UNCHANGED <<renderVars, frame, fpc, pending, computed, written, backbuffer, buffer,
                   presented>>

\* Lines 211-213: the closure returns (u, v), its borrow ends, trace_ray is called.
JitterRelease(w) ==
    /\ task[w].tpc = "jitter"
    /\ borrows' = Release(RngOf(w))
    /\ task' = [task EXCEPT ![w].tpc = "trace", ![w].depth = 0]
    /\ UNCHANGED <<renderVars, frame, fpc, pending, computed, written, backbuffer, buffer,
                   presented>>

\* Lines 147-150 and 121: the march hit, and random_in_unit_sphere borrows the generator.
TraceHit(w) ==
    /\ task[w].tpc = "trace"
    /\ ~DepthExceeded(task[w].depth)
    /\ borrows' = Borrow(RngOf(w))
    /\ task' = [task EXCEPT ![w].tpc = "sphere"]
    /\ UNCHANGED <<renderVars, frame, fpc, pending, computed, written, backbuffer, buffer,
                   presented>>

\* Lines 124-126 and 151: a candidate is returned, the borrow ends, trace_ray recurses.
SphereRelease(w) ==
    /\ task[w].tpc = "sphere"
    /\ borrows' = Release(RngOf(w))
    /\ task' = [task EXCEPT ![w].tpc = "trace", ![w].depth = @ + 1]
    /\ UNCHANGED <<renderVars, frame, fpc, pending, computed, written, backbuffer, buffer,
                   presented>>

\* Lines 131-133 or 143-157, then 151 and 213-220: the innermost call returns (depth
\* limit or miss), the calls above it return, and the fold goes on; after the last
\* sample the closure returns and its value is put into backbuffer.
TraceLeaf(w) ==
    /\ task[w].tpc = "trace"
    /\ IF task[w].sample + 1 < SAMPLES
       THEN /\ task' = [task EXCEPT ![w].sample = @ + 1, ![w].tpc = "fold", ![w].depth = 0]
            /\ UNCHANGED <<written, backbuffer>>
       ELSE /\ task' = [task EXCEPT ![w] = IdleTask]
            /\ backbuffer' = [backbuffer EXCEPT ![SlotOf(task[w].pos)] = Shade(frame, task[w].pos)]
            /\ written' = [written EXCEPT ![SlotOf(task[w].pos)] = @ + 1]
    /\ UNCHANGED <<renderVars, frame, fpc, pending, computed, buffer, presented, borrows>>

\* Line 220: collect_into_vec returns.
FrameCollected ==
    /\ fpc = "render"
    /\ AllDone
    /\ fpc' = "convert"
    /\ UNCHANGED <<renderVars, frame, pending, computed, written, backbuffer, buffer,
                   presented, task, borrows>>

\* Lines 224-227: buffer[idx] = to_color(backbuffer[idx]) for every idx.
FrameConvert ==
    /\ fpc = "convert"
    /\ buffer' = [idx \in Pixels |-> backbuffer[idx]]
    /\ fpc' = "present"
    /\ UNCHANGED <<renderVars, frame, pending, computed, written, backbuffer, presented, task,
                   borrows>>

\* Lines 229-231: update_with_buffer(&buffer, WIDTH, HEIGHT).
FramePresent ==
    /\ fpc = "present"
    /\ presented' = buffer
    /\ fpc' = "loop"
    /\ UNCHANGED <<renderVars, frame, pending, computed, written, backbuffer, buffer, task,
                   borrows>>

NextFrame ==
    \/ FrameStart
    \/ FrameExit
    \/ \E w \in Workers : TaskStart(w)
    \/ \E w \in Workers : JitterBorrow(w)
    \/ \E w \in Workers : JitterRelease(w)
    \/ \E w \in Workers : TraceHit(w)
    \/ \E w \in Workers : SphereRelease(w)
    \/ \E w \in Workers : TraceLeaf(w)
    \/ FrameCollected
    \/ FrameConvert
    \/ FramePresent

FrameSpec == InitFrame /\ [][NextFrame]_vars

(* ------------------------------ the claims ----------------------------- *)
InUnit(v) == \A i \in 1..3 : v[i] # NaN /\ 0 <= v[i] /\ v[i] <= Scale

\* The outermost trace_ray call is about to hand its value to its caller.
TopReturn == pc = "ret" /\ depth = depth0

\* The innermost call just took the miss path; nothing is halved yet.
JustMissed == pc = "ret" /\ leaf.kind = "sky" /\ depth = leaf.depth

\* C2: a call of trace_ray with depth > 5 returns the zero vector at once, for every
\* ray and scene: it sets no march point, runs no march iteration, constructs no
\* HitRecord and draws no random vector; and a call started at depth 0 never
\* recurses past depth 6.
C2_DepthLimitReturnsBlack ==
    [][/\ (pc = "call" /\ depth > 5) =>
            /\ pc' = "ret"
            /\ result' = ZERO
            /\ UNCHANGED <<p, iter, hit, rnd, ray, depth>>
       /\ (depth0 = 0 => depth' <= 6)]_vars

C2_Witness ==
    pc = "ret" /\ depth0 = 0 /\ depth = 6 /\ leaf.kind = "limit" /\ result = ZERO

\* C3 as stated: on the miss path direction (0,1,0) returns pure white and direction
\* (0,-1,0) returns the sky-blue constant.
C3_SkyGradientAsStated ==
    JustMissed =>
        /\ (leaf.direction = Vec3(0, Scale, 0) => result = ONE)
        /\ (leaf.direction = Vec3(0, 0 - Scale, 0) => result = SkyBlue)

\* C3 amended: on the miss path direction (0,1,0) returns the sky-blue constant
\* (0.5, 0.7, 1.0) exactly and direction (0,-1,0) returns pure white (1, 1, 1).
C3_SkyGradientAmended ==
    JustMissed =>
        /\ (leaf.direction = Vec3(0, Scale, 0) => result = SkyBlue)
        /\ (leaf.direction = Vec3(0, 0 - Scale, 0) => result = ONE)

C3_Witness ==
    JustMissed /\ leaf.direction = Vec3(0, Scale, 0) /\ result = Vec3(Scale \div 2, (7 * Scale) \div 10, Scale)

\* The ray of the outermost call starts on the surface of the scene's sphere and
\* points away from its center.
OnSurfacePointingAway ==
    /\ mode = "call" /\ depth0 = 0
    /\ Len(shapes) = 1 /\ shapes[1].kind = "Sphere"
    /\ Distance(shapes[1], ray0.position) = 0
    /\ LET out == VSub(ray0.position, shapes[1].center)
       IN out[1] * ray0.direction[1] + out[2] * ray0.direction[2]
            + out[3] * ray0.direction[3] > 0

\* C4: the march of a ray that starts exactly on a sphere's surface and points away
\* from the center ends in Miss: no hit is registered for it, and trace_ray returns
\* by the sky-gradient path at depth 0.
C4_SurfaceRayMisses ==
    OnSurfacePointingAway =>
        /\ hit = NoHit /\ pc # "sphere" /\ depth = 0
        /\ (pc \in {"ret", "done"} => leaf.kind = "sky" /\ leaf.depth = 0)

\* C5: the march loop of trace_ray ends for every ray, a ray of zero direction
\* included: a march never stays in the loop forever.
C5_MarchTerminates == (pc = "march") ~> (pc # "march")

\* clamp(255.99 * x, 0, 255) truncated to an integer.
ClampedByte(x) ==
    IF x = NaN THEN 0 ELSE Min2(255, Max2(0, (25599 * x) \div (100 * Scale)))

\* C6: to_color's channels are clamp(255.99 * channel, 0, 255) truncated, for every
\* channel value: each lies in 0..255 and sits in its own byte of the packed pixel.
C6_ChannelsAreClampedBytes ==
    (pc = "done" /\ mode \in {"color", "pixel"}) =>
        /\ (packed \div 65536) = ClampedByte(col[1])
        /\ (packed \div 256) % 256 = ClampedByte(col[2])
        /\ packed % 256 = ClampedByte(col[3])

\* C7: in every iteration of the march, with m the minimum of distance(current
\* point) over the scene: if m > MAX_DEPTH the march ends in Miss and the point does
\* not move; otherwise the point advances by direction * m, and the march ends in a
\* Hit whose HitRecord holds the advanced point if and only if m < MIN_DISTANCE,
\* else it loops and constructs no HitRecord.
C7_MarchIteration ==
    [][pc = "march" =>
        LET m == MinDistance(shapes, p)
        IN /\ (m > MAX_DEPTH) =>
                /\ pc' = "ret" /\ leaf'.kind = "sky" /\ p' = p /\ hit' = hit
           /\ (m <= MAX_DEPTH) =>
                /\ p' = VAdd(p, VMul(ray.direction, m))
                /\ pc' \in {"march", "sphere"}
                /\ (pc' = "sphere") <=> (m < MIN_DISTANCE)
                /\ (pc' = "sphere") => hit' = HitRecord(m, p', Normal(shapes[1], p'))
                /\ (pc' = "march") => hit' = hit
      ]_vars

C7_Witness ==
    pc = "sphere" /\ hit # NoHit /\ hit.t < MIN_DISTANCE /\ hit.p = p /\ iter = 0

\* One pixel's extent after the conversion: 2/WIDTH * aspect wide, 2/HEIGHT high.
PixelWidth == FMul(FMul(INV_WIDTH, 2 * Scale), aspect_ratio)
PixelHeight == FMul(INV_HEIGHT, 2 * Scale)

\* The closure has drawn the jitter of at least one sample.
SampleTaken == mode = "pixel" /\ (sample > 0 \/ pc # "sample")

\* C8: every sample ray's coordinates lie inside the pixel's own footprint, less
\* than one pixel width and one pixel height from the pixel's unjittered position,
\* and the pixel's color is the mean of the SAMPLES returned colors.
C8_JitterInsideFootprint ==
    /\ SampleTaken =>
          /\ 0 <= uv[1] - PixelX(pos) /\ uv[1] - PixelX(pos) < PixelWidth
          /\ 0 <= uv[2] - PixelY(pos) /\ uv[2] - PixelY(pos) < PixelHeight
    /\ (mode = "pixel" /\ pc \in {"quantize", "done"}) =>
          \A i \in 1..3 : col[i] = RDiv(c[i], SAMPLES)

\* x halved k times, each halving rounded to the unit.
RECURSIVE Attenuated(_, _)
Attenuated(x, k) == IF k = 0 THEN x ELSE Attenuated(RDiv(x, 2), k - 1)

\* C10: a call trace_ray(ray, scene, 0) with a non-zero direction returns zero after
\* 6 hits, or the sky gradient of the last ray halved once per hit, k in 0..5 hits;
\* every channel of it, and of the pixel's mean, lies in [0, 1].
C10_RadianceInUnitRange ==
    /\ (TopReturn /\ depth0 = 0 /\ ray0.direction # ZERO) =>
          /\ \/ leaf.kind = "limit" /\ leaf.depth = 6 /\ result = ZERO
             \/ /\ leaf.kind = "sky" /\ leaf.depth \in 0..5
                /\ LET sky == SkyColor(leaf.direction)
                   IN \A i \in 1..3 : result[i] = Attenuated(sky[i], leaf.depth)
          /\ InUnit(result)
    /\ (mode = "pixel" /\ pc \in {"quantize", "done"}) => InUnit(col)

C10_Witness ==
    /\ TopReturn /\ depth0 = 0 /\ ray0.direction # ZERO
    /\ leaf.kind = "sky" /\ leaf.depth >= 1 /\ result # ZERO /\ result # SkyColor(leaf.direction)

\* A worker thread holds a mutable borrow of a generator.
Holding(w) == task[w].tpc \in {"jitter", "sphere"}

\* C1: the buffer is handed to update_with_buffer only after every pixel index was
\* computed exactly once in that frame and its result written to the slot of the same
\* index, under every interleaving of the tasks; no slot is ever written twice in a
\* frame, and none holds a value of an earlier frame at the hand-over.
C1_FrameCompleteBeforePresent ==
    /\ \A i \in Pixels : written[i] <= 1 /\ computed[i] <= 1
    /\ fpc = "present" =>
          \A i \in Pixels :
              /\ computed[i] = 1 /\ written[i] = 1
              /\ backbuffer[i] = [frame |-> frame, index |-> i]
              /\ buffer[i] = [frame |-> frame, index |-> i]
    /\ (presented # <<>> /\ fpc \in {"loop", "exit"}) =>
          \A i \in Pixels : presented[i] = [frame |-> frame, index |-> i]

C1_Witness ==
    /\ fpc = "loop" /\ frame = 2 /\ presented # <<>>
    /\ \A i \in Pixels : presented[i].frame = 2 /\ written[i] = 1

\* C9: no generator is borrowed by two tasks at once and no borrow is nested: every
\* generator has at most one borrow alive, a thread that draws holds the borrow of its
\* own generator, and no borrow of a thread's generator is alive when the thread
\* starts a fold round or calls trace_ray.
C9_NoSharedOrNestedBorrow ==
    /\ \A g \in Workers : borrows[g] <= 1
    /\ \A w \in Workers :
          /\ Holding(w) => borrows[w] = 1
          /\ task[w].tpc \in {"idle", "fold", "trace"} => borrows[w] = 0

C9_Witness ==
    \E w1 \in Workers, w2 \in Workers :
        /\ w1 # w2
        /\ task[w1].tpc = "sphere" /\ task[w1].depth = MaxBounces
        /\ task[w2].tpc = "jitter"
        /\ borrows[w1] = 1 /\ borrows[w2] = 1

====
